---- MODULE Spec2Model ----
(***************************************************************************)
(* Model of download_civitai_json.py: one run of main() over a metadata   *)
(* document, the output tree it writes and the metadata file it saves.    *)
(* Text is modelled as sequences of one-character strings, paths as       *)
(* sequences of components counted from the filesystem root.              *)
(***************************************************************************)
EXTENDS Integers, Sequences, FiniteSets, TLC

\* ------------------------------------------------------------------------
\* Bounds of the model
\* ------------------------------------------------------------------------
\* the size of the largest document: its items and their downloadlinks entries,
\* counted together
MaxSize == 4
\* the longest downloadlinks list of the runs over one asset with three urls
MaxLinks == 5

\* ------------------------------------------------------------------------
\* Text helpers
\* ------------------------------------------------------------------------
Lowers == {"a","b","c","d","e","f","g","h","i","j","k","l","m",
           "n","o","p","q","r","s","t","u","v","w","x","y","z"}
Uppers == {"A","B","C","D","E","F","G","H","I","J","K","L","M",
           "N","O","P","Q","R","S","T","U","V","W","X","Y","Z"}
DigitChars == {"0","1","2","3","4","5","6","7","8","9"}
Blanks == {" "}

LowerOf == [c \in Uppers |->
    CASE c = "A" -> "a" [] c = "B" -> "b" [] c = "C" -> "c" [] c = "D" -> "d"
      [] c = "E" -> "e" [] c = "F" -> "f" [] c = "G" -> "g" [] c = "H" -> "h"
      [] c = "I" -> "i" [] c = "J" -> "j" [] c = "K" -> "k" [] c = "L" -> "l"
      [] c = "M" -> "m" [] c = "N" -> "n" [] c = "O" -> "o" [] c = "P" -> "p"
      [] c = "Q" -> "q" [] c = "R" -> "r" [] c = "S" -> "s" [] c = "T" -> "t"
      [] c = "U" -> "u" [] c = "V" -> "v" [] c = "W" -> "w" [] c = "X" -> "x"
      [] c = "Y" -> "y" [] OTHER -> "z"]

\* str.lower()
lower(s) == [k \in 1..Len(s) |-> IF s[k] \in Uppers THEN LowerOf[s[k]] ELSE s[k]]

\* index of the first k in from..Len(s) with s[k] outside cls, Len(s)+1 if none
RECURSIVE SkipWhile(_, _, _)
SkipWhile(s, from, cls) ==
    IF from > Len(s) THEN Len(s) + 1
    ELSE IF s[from] \in cls THEN SkipWhile(s, from + 1, cls) ELSE from

\* index of the last k in 1..upto with s[k] outside cls, 0 if none
RECURSIVE SkipBack(_, _, _)
SkipBack(s, upto, cls) ==
    IF upto < 1 THEN 0
    ELSE IF s[upto] \in cls THEN SkipBack(s, upto - 1, cls) ELSE upto

\* str.strip()
strip(s) ==
    LET a == SkipWhile(s, 1, Blanks)
        b == SkipBack(s, Len(s), Blanks)
    IN  IF a > b THEN <<>> ELSE SubSeq(s, a, b)

\* str.rstrip("/")
rstripSlash(s) == SubSeq(s, 1, SkipBack(s, Len(s), {"/"}))

\* s.startswith(pre) at offset from
StartsAt(s, from, pre) ==
    /\ from + Len(pre) - 1 <= Len(s)
    /\ \A k \in 1..Len(pre) : s[from + k - 1] = pre[k]

\* str.find(pat): first index where pat occurs, 0 when it does not occur
RECURSIVE FindFrom(_, _, _)
FindFrom(s, pat, from) ==
    IF from + Len(pat) - 1 > Len(s) THEN 0
    ELSE IF StartsAt(s, from, pat) THEN from ELSE FindFrom(s, pat, from + 1)

\* str.rfind(c) for one character: last index of c, 0 when absent
RECURSIVE RFind(_, _, _)
RFind(s, c, upto) ==
    IF upto < 1 THEN 0
    ELSE IF s[upto] = c THEN upto ELSE RFind(s, c, upto - 1)

\* str.split("/"): the pieces between the separators, empty pieces included
RECURSIVE split(_, _)
split(s, sep) ==
    LET k == FindFrom(s, <<sep>>, 1)
    IN  IF k = 0 THEN <<s>>
        ELSE <<SubSeq(s, 1, k - 1)>> \o split(SubSeq(s, k + 1, Len(s)), sep)

\* decimal digits of a natural number, as f"{i}" prints it
DigitOf == [d \in 0..9 |->
    CASE d = 0 -> "0" [] d = 1 -> "1" [] d = 2 -> "2" [] d = 3 -> "3"
      [] d = 4 -> "4" [] d = 5 -> "5" [] d = 6 -> "6" [] d = 7 -> "7"
      [] d = 8 -> "8" [] OTHER -> "9"]

RECURSIVE Decimal(_)
Decimal(n) == IF n < 10 THEN <<DigitOf[n]>> ELSE Decimal(n \div 10) \o <<DigitOf[n % 10]>>

\* ------------------------------------------------------------------------
\* pathlib: a path is the sequence of its components below "/"
\* ------------------------------------------------------------------------
\* the components of a path string: empty pieces and "." are dropped, ".." is kept
RECURSIVE DropDots(_)
DropDots(parts) ==
    IF parts = <<>> THEN <<>>
    ELSE IF Head(parts) = <<>> \/ Head(parts) = <<".">> THEN DropDots(Tail(parts))
    ELSE <<Head(parts)>> \o DropDots(Tail(parts))

PathParts(str) == DropDots(split(str, "/"))

\* base / name: an absolute right operand replaces the left one
PathJoin(base, str) ==
    IF Len(str) > 0 /\ str[1] = "/" THEN PathParts(str) ELSE base \o PathParts(str)

\* p.name, p.parent
name_of(p) == IF p = <<>> THEN <<>> ELSE p[Len(p)]
parent_of(p) == IF p = <<>> THEN <<>> ELSE SubSeq(p, 1, Len(p) - 1)

\* p.suffix: from the last dot of the name, unless that dot is first or last
suffix_of(p) ==
    LET n == name_of(p)
        k == RFind(n, ".", Len(n))
    IN  IF 1 < k /\ k < Len(n) THEN SubSeq(n, k, Len(n)) ELSE <<>>

\* p.stem
stem_of(p) ==
    LET n == name_of(p)
        k == RFind(n, ".", Len(n))
    IN  IF 1 < k /\ k < Len(n) THEN SubSeq(n, 1, k - 1) ELSE n

\* p.with_suffix(suf), for a path with a non-empty name
with_suffix(p, suf) == parent_of(p) \o <<stem_of(p) \o suf>>

\* ------------------------------------------------------------------------
\* get_filename_from_headers, dedup, parse_air
\* ------------------------------------------------------------------------
FilenameKey == <<"f","i","l","e","n","a","m","e","=">>

\* cd is the Content-Disposition header, empty when the response has none
get_filename_from_headers(url, cd) ==
    LET k == FindFrom(cd, FilenameKey, 1)
    IN  IF k > 0
        THEN LET fn == strip(SubSeq(cd, k + Len(FilenameKey), Len(cd)))
             IN  IF Len(fn) > 0 /\ fn[1] = "\"" /\ fn[Len(fn)] = "\""
                 THEN SubSeq(fn, 2, Len(fn) - 1)
                 ELSE fn
        ELSE LET parts == split(rstripSlash(url), "/")
             IN  parts[Len(parts)]

\* links = [u for u in links if not (u in seen or seen.add(u))]
RECURSIVE DedupFrom(_, _)
DedupFrom(links, seen) ==
    IF links = <<>> THEN <<>>
    ELSE IF Head(links) \in seen THEN DedupFrom(Tail(links), seen)
    ELSE <<Head(links)>> \o DedupFrom(Tail(links), seen \cup {Head(links)})

\* dedup that keeps the last occurrence of each url instead of the first
RECURSIVE dedupKeepsLast(_)
dedupKeepsLast(links) ==
    IF links = <<>> THEN <<>>
    ELSE IF \E k \in 2..Len(links) : links[k] = Head(links) THEN dedupKeepsLast(Tail(links))
    ELSE <<Head(links)>> \o dedupKeepsLast(Tail(links))

\* dedup with the seen set forgotten: every entry survives
dedupKeepsAll(links) == links

dedup(links) == DedupFrom(links, {})

UrnAir == <<"u","r","n",":","a","i","r",":">>
CharAt(s, k) == IF k >= 1 /\ k <= Len(s) THEN s[k] ELSE ""

\* _AIR_URN_RE.match(s): the groups of the match, or ok = FALSE
AirMatch(s) ==
    LET p1 == Len(UrnAir) + 1
        e1 == SkipWhile(s, p1, Lowers \cup DigitChars)
        p2 == e1 + 1
        e2 == SkipWhile(s, p2, Lowers \cup DigitChars)
        p3 == e2 + 1
        e3 == SkipWhile(s, p3, Lowers \cup DigitChars)
        p4 == e3 + 1
        e4 == SkipWhile(s, p4, DigitChars)
        v5 == SkipWhile(s, e4 + 1, DigitChars)
        e5 == IF CharAt(s, e4) = "@" /\ v5 > e4 + 1 THEN v5 ELSE e4
        f6 == SkipWhile(s, e5 + 1, Lowers \cup Uppers \cup DigitChars)
        e6 == IF CharAt(s, e5) = "." /\ f6 > e5 + 1 THEN f6 ELSE e5
        ok == /\ StartsAt(s, 1, UrnAir)
              /\ e1 > p1 /\ CharAt(s, e1) = ":"
              /\ e2 > p2 /\ CharAt(s, e2) = ":"
              /\ e3 > p3 /\ CharAt(s, e3) = ":"
              /\ e4 > p4
              /\ e6 = Len(s) + 1
    IN  IF ok THEN [ok |-> TRUE, ecosystem |-> SubSeq(s, p1, e1 - 1),
                    type |-> SubSeq(s, p2, e2 - 1)]
        ELSE [ok |-> FALSE, ecosystem |-> <<>>, type |-> <<>>]

\* the absent classification (None)
NoAir == [present |-> FALSE, type |-> <<>>, eco |-> <<>>]

\* parse_air returning (ecosystem, type) instead of (type, ecosystem)
parse_airSwapped(cm) ==
    IF cm.kind # "str" \/ strip(cm.s) = <<>> THEN NoAir
    ELSE LET m == AirMatch(strip(cm.s))
         IN  IF ~m.ok THEN NoAir
             ELSE [present |-> TRUE, type |-> lower(m.ecosystem), eco |-> lower(m.type)]

\* cm is meta_obj.get("copiedMessage"): kind "missing", "nonstr" or "str"
parse_air(cm) ==
    IF cm.kind # "str" \/ strip(cm.s) = <<>> THEN NoAir
    ELSE LET m == AirMatch(strip(cm.s))
         IN  IF ~m.ok THEN NoAir
             ELSE [present |-> TRUE, type |-> lower(m.type), eco |-> lower(m.ecosystem)]

\* ------------------------------------------------------------------------
\* The filesystem of the output tree: fs maps each existing path to its entry
\* ------------------------------------------------------------------------
DirEntry == [kind |-> "dir", complete |-> TRUE, size |-> 0]
FileEntry(done, n) == [kind |-> "file", complete |-> done, size |-> n]

IsDir(p, files) == p = <<>> \/ (p \in DOMAIN files /\ files[p].kind = "dir")

\* the entry a path names once the system has walked it: every component but
\* the last must be a directory, ".." steps to the parent
RECURSIVE Walk(_, _, _)
Walk(cur, rest, files) ==
    IF rest = <<>> THEN [ok |-> TRUE, path |-> cur]
    ELSE IF ~IsDir(cur, files) THEN [ok |-> FALSE, path |-> cur]
    ELSE IF Head(rest) = <<".", ".">> THEN Walk(parent_of(cur), Tail(rest), files)
    ELSE Walk(cur \o <<Head(rest)>>, Tail(rest), files)

RealPath(p, files) == Walk(<<>>, p, files)

\* p.exists()
exists(p, files) ==
    LET w == RealPath(p, files)
    IN  w.ok /\ (w.path = <<>> \/ w.path \in DOMAIN files)

\* open(p, "wb") can succeed: the parent is a directory and p is not one
CanOpen(p, files) ==
    LET w == RealPath(p, files)
    IN  w.ok /\ w.path # <<>> /\ ~IsDir(w.path, files)

\* the file system after writing a file at p (an existing file is replaced)
WriteFile(p, entry, files) ==
    LET w == RealPath(p, files)
    IN  [q \in DOMAIN files \cup {w.path} |-> IF q = w.path THEN entry ELSE files[q]]

\* cand = parent / f"{stem}__{i}{suf}"
Candidate(p, n) ==
    parent_of(p) \o <<stem_of(p) \o <<"_", "_">> \o Decimal(n) \o suffix_of(p)>>

\* uniquify_path: p itself when free, else the first free stem__i.suf, i = 2, 3, ...
RECURSIVE UniquifyFrom(_, _, _)
UniquifyFrom(p, n, files) ==
    IF ~exists(Candidate(p, n), files) THEN Candidate(p, n)
    ELSE UniquifyFrom(p, n + 1, files)

\* uniquify_path that tries stem__2 only, without the loop
uniquify_pathOnce(p, files) == IF ~exists(p, files) THEN p ELSE Candidate(p, 2)

\* uniquify_path without the look at the disk
uniquify_pathUnchecked(p, files) == p

uniquify_path(p, files) == IF ~exists(p, files) THEN p ELSE UniquifyFrom(p, 2, files)

\* path.mkdir(parents=True, exist_ok=True) can succeed: no prefix of the path is a file
Prefixes(p) == {SubSeq(p, 1, k) : k \in 1..Len(p)}
CanMkdir(p, files) == \A q \in Prefixes(p) : q \in DOMAIN files => files[q].kind = "dir"
Mkdir(p, files) ==
    [q \in DOMAIN files \cup Prefixes(p) |-> IF q \in DOMAIN files THEN files[q] ELSE DirEntry]

\* ------------------------------------------------------------------------
\* Inputs of a run
\* ------------------------------------------------------------------------
\* root = pathlib.Path(args.root_dir).resolve()
Root == << <<"r">> >>
DefaultDir == <<"d","e","f","a","u","l","t">>
TmpSuffix == <<".","t","m","p">>

\* args.meta_json: m.json, m.tmp and m, in a directory outside the output tree
DocPaths == { << <<"m",".","j","s","o","n">> >>, << <<"m",".","t","m","p">> >>, << <<"m">> >> }

\* the URLs of the documents: h/a.b and h/c
Url1 == <<"h","/","a",".","b">>
Url2 == <<"h","/","c">>
Urls == {Url1, Url2}

\* copiedMessage: missing, or urn:air:c:k:m:1
CmMissing == [kind |-> "missing", s |-> <<>>]
CmValid == [kind |-> "str", s |-> UrnAir \o <<"c",":","k",":","m",":","1">>]
CopiedMessages == {CmMissing, CmValid}

\* Content-Disposition of a response: none, or filename="a.b"
NoCd == <<>>
CdAB == FilenameKey \o <<"\"","a",".","b","\"">>
Dispositions == {NoCd, CdAB}

\* a response of requests.head / requests.get: raised, or a status and headers
Statuses == {200, 304, 404}
Responses(url) ==
    {[raised |-> TRUE, status |-> 0, cd |-> NoCd, url |-> url]}
    \cup {[raised |-> FALSE, status |-> st, cd |-> cd, url |-> url] :
            st \in Statuses, cd \in Dispositions}

\* the body sizes a fetch can deliver
Sizes == {2}

SeqsUpTo(S, n) == UNION {[1..k -> S] : k \in 0..n}

\* what a document says about one item: its copiedMessage and its downloadlinks,
\* at most n of them
Templates(n) == [cm : CopiedMessages, links : SeqsUpTo(Urls, n)]

RECURSIVE TotalLinks(_)
TotalLinks(tpl) == IF tpl = <<>> THEN 0 ELSE Len(Head(tpl).links) + TotalLinks(Tail(tpl))

\* the documents of the model: k items and at most MaxSize - k links in all
Documents ==
    UNION {{tpl \in [1..k -> Templates(MaxSize - k)] : TotalLinks(tpl) <= MaxSize - k} :
             k \in 0..MaxSize}

\* base = root / air[0] if air else root / "default"
BaseOf(a) == IF a.present THEN Root \o <<a.type>> ELSE Root \o <<DefaultDir>>

\* TargetOf without the ecosystem prefix
TargetOfNoPrefix(a, b, nm) == PathJoin(b, nm)

\* target = base / f"{eco}_{name}" if air else base / name
TargetOf(a, b, nm) ==
    IF a.present THEN PathJoin(b, a.eco \o <<"_">> \o nm) ELSE PathJoin(b, nm)

NewRecord(u, t, n) == [url |-> u, relative_path |-> t, size_bytes |-> n]

\* what an earlier run that fetched u for an item of classification a left: one
\* more record and one more file, the name taken from the URL
PriorFetch(u, a, b, acc) ==
    LET t == uniquify_path(TargetOf(a, b, get_filename_from_headers(u, NoCd)), acc.files)
    IN  [recs |-> Append(acc.recs, NewRecord(u, t, 2)),
         files |-> WriteFile(t, FileEntry(TRUE, 2), acc.files)]

\* the records and files an earlier run left for one item when every fetch
\* succeeded (the set constructors bind each intermediate result once)
RECURSIVE PriorItem(_, _, _, _)
PriorItem(ls, a, b, acc) ==
    IF ls = <<>> THEN acc
    ELSE CHOOSE out \in {PriorItem(Tail(ls), a, b, nxt) :
                           nxt \in {PriorFetch(Head(ls), a, b, acc)}} : TRUE

PriorAsset(t, ran, acc) ==
    CHOOSE out \in
        {[doc |-> Append(acc.doc,
                         [cm |-> t.cm, links |-> t.links,
                          downloads |-> [present |-> r.recs # <<>>, val |-> r.recs]]),
          files |-> r.files] :
            r \in {IF ran
                   THEN PriorItem(dedup(t.links), parse_air(t.cm), BaseOf(parse_air(t.cm)),
                                  [recs |-> <<>>,
                                   files |-> Mkdir(BaseOf(parse_air(t.cm)), acc.files)])
                   ELSE [recs |-> <<>>, files |-> acc.files]}} : TRUE

\* the document and the output tree before the run: fresh (no item has a
\* downloads field, nothing on disk) or as an earlier complete run left them
RECURSIVE PriorRun(_, _, _)
PriorRun(tpl, ran, acc) ==
    IF tpl = <<>> THEN acc
    ELSE CHOOSE out \in {PriorRun(Tail(tpl), ran, nxt) :
                           nxt \in {PriorAsset(Head(tpl), ran, acc)}} : TRUE

\* what the run finds at startup: whether CIVIT_API is set, what
\* ensure_writable_dir(root) meets, and whether json.load can read the document
Environments == [token : BOOLEAN, root : {"ok", "raise", "die"}, readable : BOOLEAN]

\* what a response says about how the request went, and the answer of a request
\* that was not sent
Answer(resp) == [raised |-> resp.raised, status |-> resp.status]
Unsent == [raised |-> FALSE, status |-> 0]

\* no call of probe_filename has just returned
NotProbed == [called |-> FALSE, head |-> Unsent, gets |-> 0, get |-> Unsent]

\* a file of the metadata directory: missing, or complete with a document, or partial
NoFile == [exists |-> FALSE, complete |-> FALSE, doc |-> <<>>]
PartialFile == [exists |-> TRUE, complete |-> FALSE, doc |-> <<>>]
DocFile(d) == [exists |-> TRUE, complete |-> TRUE, doc |-> d]

\* ------------------------------------------------------------------------
\* State
\* ------------------------------------------------------------------------
VARIABLES
    env,         \* what the run finds at startup: [token, root, readable]
    fs0,         \* the output tree as it was when the run started
    pc,          \* the statement main() is at
    exitStatus,  \* -1 while running, else the exit status of the process
    disk,        \* the file named by args.meta_json
    tmpFile,     \* the file at the temporary sibling path, when that is another file
    p, tmp,      \* the locals of the save step
    fs,          \* the output tree
    orig,        \* the document as it was on disk when the run started
    meta,        \* the in-memory document
    changed,
    i,           \* index of the current item
    links, air, base,
    j,           \* index of the current url in links
    name, target, size,
    hist,        \* per-URL outcomes of this run, in order
    resolved,    \* the paths uniquify_path returned in this run, in order
    net,         \* requests issued: [head, fetch], the HEADs of probes and the GETs of downloads
    probed,      \* the requests of the probe_filename call that has just returned
    docWrites    \* how often the file named by args.meta_json was written or replaced

vars == <<env, fs0, pc, exitStatus, disk, tmpFile, p, tmp, fs, orig, meta, changed, i, links, air,
          base, j, name, target, size, hist, resolved, net, probed, docWrites>>

Init ==
    \E tpl \in Documents, ran \in BOOLEAN, e \in Environments :
      \E pr \in {PriorRun(tpl, ran, [doc |-> <<>>, files |-> <<>>])} :
            /\ env = e
            /\ fs0 = pr.files
            /\ pc = "token"
            /\ exitStatus = -1
            /\ disk = DocFile(pr.doc)
            /\ tmpFile = NoFile
            /\ p = <<>>
            /\ tmp = <<>>
            /\ fs = pr.files
            /\ orig = pr.doc
            /\ meta = <<>>
            /\ changed = FALSE
            /\ i = 0
            /\ links = <<>>
            /\ air = NoAir
            /\ base = <<>>
            /\ j = 0
            /\ name = <<>>
            /\ target = <<>>
            /\ size = 0
            /\ hist = <<>>
            /\ resolved = <<>>
            /\ net = [head |-> 0, fetch |-> 0]
            /\ probed = NotProbed
            /\ docWrites = 0

\* ------------------------------------------------------------------------
\* Functions with an environment: ensure_writable_dir, probe_filename, download
\* ------------------------------------------------------------------------
\* out is what the system does: "ok", "raise" (mkdir raises) or "die" (the
\* directory is not writable); mkdir always raises when a prefix is a file
ensure_writable_dir(path, out, files) ==
    IF out = "raise" \/ ~CanMkdir(path, files) THEN [status |-> "raise", files |-> files]
    ELSE [status |-> out, files |-> Mkdir(path, files)]

\* probe_filename without the fallback: it raises when the HEAD did not succeed
probe_filenameNoFallback(url, head, get) ==
    IF ~head.raised /\ head.status < 400
    THEN [ok |-> TRUE, name |-> get_filename_from_headers(head.url, head.cd), gets |-> 0]
    ELSE [ok |-> FALSE, name |-> <<>>, gets |-> 0]

\* head and get are the responses of the two requests; gets counts the GETs
\* issued: the GET is sent only when the HEAD raised or answered with an error
\* status
probe_filename(url, head, get) ==
    IF ~head.raised /\ head.status < 400
    THEN [ok |-> TRUE, name |-> get_filename_from_headers(head.url, head.cd), gets |-> 0]
    ELSE IF get.raised \/ get.status >= 400
    THEN [ok |-> FALSE, name |-> <<>>, gets |-> 1]
    ELSE [ok |-> TRUE, name |-> get_filename_from_headers(get.url, get.cd), gets |-> 1]

\* resp is the response of the GET; wr says how the write loop ends: "full",
\* "openfail" (open raises) or "interrupted" (iter_content raises mid-stream)
download(resp, wr, path, n, files) ==
    IF resp.raised \/ resp.status >= 400
    THEN [ok |-> FALSE, size |-> 0, files |-> files]
    ELSE IF wr = "openfail" \/ ~CanOpen(path, files)
    THEN [ok |-> FALSE, size |-> 0, files |-> files]
    ELSE IF wr = "interrupted"
    THEN [ok |-> FALSE, size |-> 0, files |-> WriteFile(path, FileEntry(FALSE, 0), files)]
    ELSE [ok |-> TRUE, size |-> n, files |-> WriteFile(path, FileEntry(TRUE, n), files)]

\* LinksOf with the links that already have a record in downloads dropped
LinksOfUnrecorded(item) ==
    LET New(u) == \A n \in 1..Len(item.downloads.val) : item.downloads.val[n].url # u
    IN  SelectSeq(dedup(item.links), New)

\* links = meta_obj.get("downloadlinks") or [], deduplicated inside this list only
LinksOf(item) == dedup(item.links)

\* AppendDownload as item["downloads"] = [rec]
AppendDownloadOverwrites(item, rec) ==
    [item EXCEPT !.downloads = [present |-> TRUE, val |-> <<rec>>]]

\* item.setdefault("downloads", []).append(rec)
AppendDownload(item, rec) ==
    [item EXCEPT !.downloads = [present |-> TRUE, val |-> Append(item.downloads.val, rec)]]

\* ------------------------------------------------------------------------
\* Actions: the statements of main()
\* ------------------------------------------------------------------------
Exit(st) == pc' = "exit" /\ exitStatus' = st

\* NextUrl that goes back to the same url after the first outcome of the run
NextUrlRetry ==
    /\ IF hist = <<>> THEN pc' = "probe" /\ j' = j /\ i' = i
       ELSE IF j < Len(links) THEN pc' = "probe" /\ j' = j + 1 /\ i' = i
       ELSE pc' = "item" /\ i' = i + 1 /\ j' = j
    /\ name' = <<>> /\ target' = <<>> /\ size' = 0

\* the for loops step to the next url of the item, else to the next item; name,
\* target and size are dead once an iteration is over and are cleared
NextUrl ==
    /\ IF j < Len(links) THEN pc' = "probe" /\ j' = j + 1 /\ i' = i
       ELSE pc' = "item" /\ i' = i + 1 /\ j' = j
    /\ name' = <<>> /\ target' = <<>> /\ size' = 0

Outcome(res, path) == [item |-> i, url |-> links[j], result |-> res, path |-> path]

\* WarnContinue without the except clause: the exception ends the run
WarnAborts(res, path) ==
    /\ hist' = Append(hist, Outcome(res, path))
    /\ Exit(1)
    /\ UNCHANGED <<i, j, name, target, size>>

\* except Exception: warn(...); continue
WarnContinue(res, path) ==
    /\ hist' = Append(hist, Outcome(res, path))
    /\ exitStatus' = exitStatus
    /\ NextUrl

\* CheckToken without the die
CheckTokenGoesOn ==
    /\ pc = "token"
    /\ pc' = "root" /\ exitStatus' = exitStatus
    /\ UNCHANGED <<env, fs0, disk, tmpFile, p, tmp, fs, orig, meta, changed, i, links, air,
                   base, j, name, target, size, hist, resolved, net, probed, docWrites>>

\* token = os.environ.get("CIVIT_API"); die when it is not set
CheckToken ==
    /\ pc = "token"
    /\ IF env.token THEN pc' = "root" /\ exitStatus' = exitStatus ELSE Exit(1)
    /\ UNCHANGED <<env, fs0, disk, tmpFile, p, tmp, fs, orig, meta, changed, i, links, air, base, j,
                   name, target, size, hist, resolved, net, probed, docWrites>>

\* ensure_writable_dir(root)
EnsureRoot ==
    /\ pc = "root"
    /\ LET r == ensure_writable_dir(Root, env.root, fs)
       IN  /\ fs' = r.files
           /\ IF r.status = "ok" THEN pc' = "load" /\ exitStatus' = exitStatus ELSE Exit(1)
    /\ UNCHANGED <<env, fs0, disk, tmpFile, p, tmp, orig, meta, changed, i, links, air, base, j,
                   name, target, size, hist, resolved, net, probed, docWrites>>

\* meta = json.load(f); changed = False
LoadDoc ==
    /\ pc = "load"
    /\ IF env.readable /\ disk.exists /\ disk.complete
       THEN /\ meta' = disk.doc
            /\ pc' = "item" /\ i' = 1 /\ exitStatus' = exitStatus
       ELSE /\ Exit(1)
            /\ UNCHANGED <<meta, i>>
    /\ changed' = FALSE
    /\ UNCHANGED <<env, fs0, disk, tmpFile, p, tmp, fs, orig, links, air, base, j, name, target,
                   size, hist, resolved, net, probed, docWrites>>

\* the head of the item loop: dedup, parse_air, ensure_writable_dir(base)
ItemBegin ==
    /\ pc = "item" /\ i <= Len(meta)
    /\ links' = LinksOf(meta[i])
    /\ air' = parse_air(meta[i].cm)
    /\ base' = BaseOf(air')
    /\ \E out \in {"ok", "raise", "die"} :
         LET r == ensure_writable_dir(base', out, fs)
         IN  /\ fs' = r.files
             /\ IF r.status # "ok" THEN Exit(1) /\ UNCHANGED <<i, j>>
                ELSE /\ exitStatus' = exitStatus
                     /\ IF links' = <<>> THEN pc' = "item" /\ i' = i + 1 /\ j' = j
                        ELSE pc' = "probe" /\ j' = 1 /\ i' = i
    /\ UNCHANGED <<env, fs0, disk, tmpFile, p, tmp, orig, meta, changed, name, target, size, hist,
                   resolved, net, probed, docWrites>>

\* name = probe_filename(url, h): the call returns a name or raises
Probe ==
    /\ pc = "probe"
    /\ \E head \in Responses(links[j]), get \in Responses(links[j]) :
         LET r == probe_filename(links[j], head, get)
         IN  /\ net' = [net EXCEPT !.head = @ + 1]
             /\ probed' = [called |-> TRUE, head |-> Answer(head), gets |-> r.gets,
                           get |-> IF r.gets = 1 THEN Answer(get) ELSE Unsent]
             /\ IF r.ok THEN name' = r.name /\ pc' = "resolve"
                ELSE name' = name /\ pc' = "probe_warn"
    /\ UNCHANGED <<env, fs0, exitStatus, disk, tmpFile, p, tmp, fs, orig, meta, changed, i,
                   links, air, base, j, target, size, hist, resolved, docWrites>>

\* except Exception as e: warn(f"filename probe failed: ..."); continue
ProbeWarn ==
    /\ pc = "probe_warn"
    /\ probed' = NotProbed
    /\ WarnContinue("probe_failed", <<>>)
    /\ UNCHANGED <<env, fs0, disk, tmpFile, p, tmp, fs, orig, meta, changed, links, air,
                   base, resolved, net, docWrites>>

\* target = uniquify_path(base / f"{eco}_{name}" or base / name)
Resolve ==
    /\ pc = "resolve"
    /\ target' = uniquify_path(TargetOf(air, base, name), fs)
    /\ resolved' = Append(resolved, target')
    /\ probed' = NotProbed
    /\ pc' = "fetch"
    /\ UNCHANGED <<env, fs0, exitStatus, disk, tmpFile, p, tmp, fs, orig, meta, changed, i, links,
                   air, base, j, name, size, hist, net, docWrites>>

\* size = download(url, h, target), or warn and continue
Download ==
    /\ pc = "fetch"
    /\ \E resp \in Responses(links[j]), wr \in {"full", "openfail", "interrupted"},
          n \in Sizes :
         LET r == download(resp, wr, target, n, fs)
         IN  /\ fs' = r.files
             /\ net' = [net EXCEPT !.fetch = @ + 1]
             /\ IF r.ok
                THEN /\ size' = r.size
                     /\ hist' = Append(hist, Outcome("fetched", target))
                     /\ pc' = "record"
                     /\ UNCHANGED <<exitStatus, i, j, name, target>>
                ELSE WarnContinue("fetch_failed", target)
    /\ UNCHANGED <<env, fs0, disk, tmpFile, p, tmp, orig, meta, changed, links, air,
                   base, resolved, probed, docWrites>>

\* item.setdefault("downloads", []).append({...}); changed = True
Record ==
    /\ pc = "record"
    /\ meta' = [meta EXCEPT ![i] = AppendDownload(@, NewRecord(links[j], target, size))]
    /\ changed' = TRUE
    /\ NextUrl
    /\ UNCHANGED <<env, fs0, exitStatus, disk, tmpFile, p, tmp, fs, orig, links, air, base, hist,
                   resolved, net, probed, docWrites>>

\* SaveCheck without the test of changed
SaveCheckAlways ==
    /\ pc = "item" /\ i > Len(meta)
    /\ \E path \in DocPaths : p' = path /\ tmp' = with_suffix(path, TmpSuffix)
    /\ pc' = "save_open" /\ exitStatus' = exitStatus
    /\ UNCHANGED <<env, fs0, disk, tmpFile, fs, orig, meta, changed, i, links, air, base, j,
                   name, target, size, hist, resolved, net, probed, docWrites>>

\* if changed: p = pathlib.Path(args.meta_json); tmp = p.with_suffix(".tmp");
\* else the run ends.  Nothing before this statement looks at the spelling of
\* args.meta_json, so the model draws it here
SaveCheck ==
    /\ pc = "item" /\ i > Len(meta)
    /\ IF changed
       THEN /\ \E path \in DocPaths : p' = path /\ tmp' = with_suffix(path, TmpSuffix)
            /\ pc' = "save_open" /\ exitStatus' = exitStatus
       ELSE Exit(0) /\ UNCHANGED <<p, tmp>>
    /\ UNCHANGED <<env, fs0, disk, tmpFile, fs, orig, meta, changed, i, links, air, base, j, name,
                   target, size, hist, resolved, net, probed, docWrites>>

\* the file at path q becomes c: the temporary path may be the document's own
WriteMeta(q, c) ==
    IF q = p THEN disk' = c /\ tmpFile' = tmpFile ELSE tmpFile' = c /\ disk' = disk

\* open(tmp, "w"): creates or truncates the temporary file
SaveOpen ==
    /\ pc = "save_open"
    /\ \E ok \in BOOLEAN :
         IF ok
         THEN /\ WriteMeta(tmp, PartialFile)
              /\ docWrites' = docWrites + (IF tmp = p THEN 1 ELSE 0)
              /\ pc' = "save_dump" /\ exitStatus' = exitStatus
         ELSE Exit(1) /\ UNCHANGED <<disk, tmpFile, docWrites>>
    /\ UNCHANGED <<env, fs0, p, tmp, fs, orig, meta, changed, i, links, air, base, j, name, target,
                   size, hist, resolved, net, probed>>

\* json.dump(meta, f) and the close of the file; a failed write leaves it partial
SaveDump ==
    /\ pc = "save_dump"
    /\ \E ok \in BOOLEAN :
         IF ok
         THEN /\ WriteMeta(tmp, DocFile(meta))
              /\ pc' = "save_replace" /\ exitStatus' = exitStatus
         ELSE Exit(1) /\ UNCHANGED <<disk, tmpFile>>
    /\ UNCHANGED <<env, fs0, p, tmp, fs, orig, meta, changed, i, links, air, base, j, name, target,
                   size, hist, resolved, net, probed, docWrites>>

\* tmp.replace(p): an atomic rename; renaming a file onto itself changes nothing
SaveReplace ==
    /\ pc = "save_replace"
    /\ \E ok \in BOOLEAN :
         IF ok
         THEN /\ IF tmp = p THEN UNCHANGED <<disk, tmpFile, docWrites>>
                 ELSE disk' = tmpFile /\ tmpFile' = NoFile /\ docWrites' = docWrites + 1
              /\ Exit(0)
         ELSE Exit(1) /\ UNCHANGED <<disk, tmpFile, docWrites>>
    /\ UNCHANGED <<env, fs0, p, tmp, fs, orig, meta, changed, i, links, air, base, j, name, target,
                   size, hist, resolved, net, probed>>

\* the process is terminated from outside, at any statement
Kill ==
    /\ pc # "exit"
    /\ Exit(137)
    /\ UNCHANGED <<env, fs0, disk, tmpFile, p, tmp, fs, orig, meta, changed, i, links, air, base, j,
                   name, target, size, hist, resolved, net, probed, docWrites>>

Next ==
    \/ CheckToken \/ EnsureRoot \/ LoadDoc \/ ItemBegin \/ Probe \/ ProbeWarn \/ Resolve \/ Download
    \/ Record \/ SaveCheck \/ SaveOpen \/ SaveDump \/ SaveReplace \/ Kill

Spec == Init /\ [][Next]_vars

\* ------------------------------------------------------------------------
\* Properties
\* ------------------------------------------------------------------------
\* json.load has returned: LoadDoc is the statement that sets i to 1
Loaded == i >= 1

IsPrefix(a, b) == Len(a) <= Len(b) /\ SubSeq(b, 1, Len(a)) = a

\* the records of item k that this run appended
Added(k) ==
    SubSeq(meta[k].downloads.val, Len(orig[k].downloads.val) + 1,
           Len(meta[k].downloads.val))

CountUrl(recs, u) == Cardinality({n \in 1..Len(recs) : recs[n].url = u})

\* the outcomes of kind res that this run noted for url u of item k
Events(k, u, res) ==
    {n \in 1..Len(hist) : hist[n].item = k /\ hist[n].url = u /\ hist[n].result = res}

FetchedAny == \E n \in 1..Len(hist) : hist[n].result = "fetched"

\* u of item k is the url the loop is at: its record statement has not run yet
Pending(k, u) == i = k /\ j >= 1 /\ j <= Len(links) /\ links[j] = u

\* every link of every item of the loaded document already has a record
AllRecorded ==
    \A k \in 1..Len(orig) : \A m \in 1..Len(orig[k].links) :
        CountUrl(orig[k].downloads.val, orig[k].links[m]) >= 1

\* every surviving url of every item has an outcome in this run
AllAttempted ==
    \A k \in 1..Len(orig) : \A m \in 1..Len(orig[k].links) :
        \E n \in 1..Len(hist) : hist[n].item = k /\ hist[n].url = orig[k].links[m]

\* C1: at every moment of the save, a crash included, the file named by
\* args.meta_json holds the complete original document or the complete updated
\* document, never a partial one, whatever the extension of the path
C1_DocumentNeverPartial ==
    /\ disk.exists
    /\ disk.complete
    /\ (disk.doc = orig \/ disk.doc = meta)

\* C2 as stated: a run over a document in which every link already has a
\* record leaves every downloads list unchanged, changed false and the document
\* file unwritten
C2_RerunChangesNothing ==
    (AllRecorded /\ Loaded) => (meta = orig /\ ~changed /\ docWrites = 0)

\* C2 amended: links that already have a record are not skipped; the run probes
\* and fetches them again, every fetch that succeeds appends one more record for
\* its url, and downloads, changed and the document file stay untouched exactly
\* when no fetch of the run succeeds
C2_RerunFetchesAgain ==
    AllRecorded =>
        /\ ~FetchedAny =>
              /\ Loaded => meta = orig
              /\ ~changed /\ docWrites = 0 /\ disk = DocFile(orig)
        /\ (pc = "exit" /\ exitStatus = 0) =>
              /\ AllAttempted
              /\ \A k \in 1..Len(meta) : \A u \in Urls :
                    CountUrl(meta[k].downloads.val, u) =
                        CountUrl(orig[k].downloads.val, u)
                            + Cardinality(Events(k, u, "fetched"))
              /\ FetchedAny => (changed /\ docWrites = 1 /\ meta # orig)

\* a finished run over a fully recorded document in which a recorded url was
\* fetched again
C2_Witness ==
    /\ AllRecorded /\ pc = "exit" /\ exitStatus = 0
    /\ \E n \in 1..Len(hist) :
          /\ hist[n].result = "fetched"
          /\ CountUrl(orig[hist[n].item].downloads.val, hist[n].url) = 1
          /\ CountUrl(meta[hist[n].item].downloads.val, hist[n].url) = 2

\* C3 as stated: when a run ends before completing (terminated, or stopped by a
\* fatal error), the document on disk holds a record for every fetch that
\* succeeded and was recorded in memory
C3_PartialRunLosesNothing ==
    (pc = "exit" /\ exitStatus # 0) =>
        \A n \in 1..Len(hist) :
            (hist[n].result = "fetched" /\ ~Pending(hist[n].item, hist[n].url)) =>
                /\ disk.complete
                /\ \E m \in 1..Len(disk.doc[hist[n].item].downloads.val) :
                      /\ disk.doc[hist[n].item].downloads.val[m].url = hist[n].url
                      /\ disk.doc[hist[n].item].downloads.val[m].relative_path
                            = hist[n].path

\* C4: for every item and url, the run appended one record if the fetch of the
\* url returned successfully and its record statement ran, and none otherwise;
\* a url is fetched at most once per item; every appended record names a file
\* that is completely written
C4_OneRecordPerSuccessfulFetch ==
    \A k \in 1..Len(meta) :
        /\ \A u \in Urls :
              /\ Cardinality(Events(k, u, "fetched")) <= 1
              /\ CountUrl(Added(k), u) =
                    (IF Events(k, u, "fetched") # {} /\ ~Pending(k, u) THEN 1 ELSE 0)
        /\ \A n \in 1..Len(Added(k)) :
              /\ Events(k, Added(k)[n].url, "fetched") # {}
              /\ exists(Added(k)[n].relative_path, fs)
              /\ fs[RealPath(Added(k)[n].relative_path, fs).path]
                    = FileEntry(TRUE, Added(k)[n].size_bytes)

\* a finished run in which one fetch was interrupted mid-stream, leaving a
\* partial file without a record, and another fetch succeeded and has its record
C4_Witness ==
    /\ pc = "exit" /\ exitStatus = 0
    /\ \E n \in 1..Len(hist) :
          /\ hist[n].result = "fetch_failed"
          /\ exists(hist[n].path, fs)
          /\ ~fs[RealPath(hist[n].path, fs).path].complete
          /\ CountUrl(Added(hist[n].item), hist[n].url) = 0
    /\ \E n \in 1..Len(hist) :
          /\ hist[n].result = "fetched"
          /\ CountUrl(Added(hist[n].item), hist[n].url) = 1

\* a step that notes a failed probe or a failed fetch
FailureStep ==
    /\ hist' # hist
    /\ hist'[Len(hist')].result \in {"probe_failed", "fetch_failed"}

\* C5: a failed probe or fetch appends no record, does not end the run and
\* moves on to the next url of the asset, or to the next asset after the last
\* url; a run that leaves the item loop has attempted every url of every asset,
\* and a run never exits with an error status from the probe or the fetch
C5_FailuresAreIsolated ==
    /\ [][FailureStep =>
            /\ meta' = meta /\ changed' = changed
            /\ exitStatus' = -1
            /\ IF j < Len(links) THEN pc' = "probe" /\ i' = i /\ j' = j + 1
               ELSE pc' = "item" /\ i' = i + 1]_vars
    /\ [][(pc \in {"probe", "probe_warn", "resolve", "fetch", "record"} /\ pc' = "exit")
            => exitStatus' = 137]_vars
    /\ []((Loaded /\ i > Len(meta)) => AllAttempted)
    /\ []((pc = "exit" /\ exitStatus = 0) => (Loaded /\ i > Len(meta)))

\* a run that ended normally although a url failed, with a later url attempted
\* after the failure
C5_Witness ==
    /\ pc = "exit" /\ exitStatus = 0
    /\ \E n \in 1..Len(hist) : \E m \in 1..Len(hist) :
          /\ n < m
          /\ hist[n].result \in {"probe_failed", "fetch_failed"}
          /\ hist[m].result = "fetched"

\* C6 as stated: a failure to create an asset's base directory or to make it
\* writable does not halt the run: the run never ends with an error status
\* while it is inside the item loop
C6_BaseDirFailureIsRecoverable ==
    ~(pc = "exit" /\ exitStatus = 1 /\ Loaded /\ i <= Len(meta))

\* the run cannot start: no credential, no writable root, or no readable document
StartupFails == ~env.token \/ env.root # "ok" \/ ~env.readable

\* C7: when the credential is missing, the root cannot be made writable or the
\* document cannot be read, the run never gets past startup: it issues no
\* request, writes no file of the output tree and leaves the document and its
\* temporary sibling alone, and when it ends its status is not zero
C7_StartupFailureTouchesNothing ==
    StartupFails =>
        /\ pc \in {"token", "root", "load", "exit"}
        /\ ~Loaded /\ meta = <<>>
        /\ net = [head |-> 0, fetch |-> 0]
        /\ hist = <<>> /\ resolved = <<>>
        /\ \A q \in DOMAIN fs :
              fs[q].kind = "file" => (q \in DOMAIN fs0 /\ fs0[q] = fs[q])
        /\ ~env.token => fs = fs0
        /\ disk = DocFile(orig) /\ tmpFile = NoFile /\ docWrites = 0
        /\ pc = "exit" => exitStatus \in {1, 137}

\* a run over a document with links that ended with status 1 because the
\* document could not be read
C7_Witness ==
    /\ env.token /\ env.root = "ok" /\ ~env.readable
    /\ pc = "exit" /\ exitStatus = 1
    /\ \E k \in 1..Len(orig) : orig[k].links # <<>>

\* C8: once the document is loaded no step changes the number of items or an
\* item's meta, and every downloads list is a prefix of what it is after the
\* step and of what it was at load; an item without a successful fetch is
\* exactly as loaded
C8_DownloadsOnlyGrow ==
    /\ [][Loaded =>
            /\ Len(meta') = Len(meta)
            /\ \A k \in 1..Len(meta) :
                  /\ meta'[k].cm = meta[k].cm /\ meta'[k].links = meta[k].links
                  /\ IsPrefix(meta[k].downloads.val, meta'[k].downloads.val)
                  /\ meta[k].downloads.present => meta'[k].downloads.present]_vars
    /\ [](Loaded =>
            /\ Len(meta) = Len(orig)
            /\ \A k \in 1..Len(meta) :
                  /\ IsPrefix(orig[k].downloads.val, meta[k].downloads.val)
                  /\ (\A n \in 1..Len(hist) :
                        hist[n].item = k => hist[n].result # "fetched")
                     => meta[k] = orig[k])

\* an item that came with a record got another one, next to an item that is
\* still without a downloads field
C8_Witness ==
    /\ Loaded
    /\ \E k \in 1..Len(meta) :
          /\ Len(orig[k].downloads.val) >= 1
          /\ Len(meta[k].downloads.val) > Len(orig[k].downloads.val)
    /\ \E k \in 1..Len(meta) : ~orig[k].downloads.present /\ ~meta[k].downloads.present

\* some item has more records than it was loaded with
RecordAppended ==
    \E k \in 1..Len(meta) : Len(meta[k].downloads.val) > Len(orig[k].downloads.val)

\* C9: the document file is written at most once; it and its temporary sibling
\* are touched only after every asset has been processed and a record was
\* appended; a run that ends normally has written the document exactly when it
\* appended a record, and then the file holds the updated document
C9_WrittenOnceAtTheEnd ==
    /\ docWrites <= 1
    /\ (docWrites > 0 \/ tmpFile # NoFile \/ disk # DocFile(orig)) =>
          (Loaded /\ i > Len(meta) /\ changed /\ RecordAppended)
    /\ (pc = "exit" /\ exitStatus = 0) =>
          /\ docWrites = 1 <=> RecordAppended
          /\ docWrites = 1 => disk = DocFile(meta)
          /\ tmpFile = NoFile

\* a run that appended a record, wrote the document once and ended normally
C9_Witness ==
    /\ pc = "exit" /\ exitStatus = 0
    /\ docWrites = 1 /\ RecordAppended /\ disk = DocFile(meta) /\ disk # DocFile(orig)

\* <root>/default/a.b and its numbered variants
DefaultAB(n) ==
    Root \o <<DefaultDir>> \o
        <<IF n = 1 THEN <<"a", ".", "b">> ELSE <<"a", "_", "_">> \o Decimal(n) \o <<".", "b">> >>

\* C10 as stated: no path that uniquify_path returns equals a path it returned
\* earlier in the same run
C10_NeverResolvedTwice ==
    \A a \in 1..Len(resolved) : \A b \in 1..Len(resolved) :
        a < b => resolved[a] # resolved[b]

\* C10 amended: the path uniquify_path returns does not exist on disk at the
\* moment of resolution and is no path of a file this run wrote; it is
\* directory/name when that is free, else the name with __n before the
\* extension for the least n >= 2 that is free (a.b, a__2.b, a__3.b, ...); a
\* path whose fetch created no file may be returned again
C10_ResolvedPathIsFree ==
    pc = "fetch" =>
        LET want == TargetOf(air, base, name)
        IN  /\ target = resolved[Len(resolved)]
            /\ ~exists(target, fs)
            /\ \A n \in 1..Len(hist) : hist[n].result = "fetched" => hist[n].path # target
            /\ \A k \in 1..Len(meta) : \A n \in 1..Len(meta[k].downloads.val) :
                  meta[k].downloads.val[n].relative_path # target
            /\ ~exists(want, fs) => target = want
            /\ exists(want, fs) =>
                  \E n \in 2..(Cardinality(DOMAIN fs) + 2) :
                      /\ target = Candidate(want, n)
                      /\ \A m \in 2..(n - 1) : exists(Candidate(want, m), fs)
            /\ want = DefaultAB(1) =>
                  \E n \in 1..(Cardinality(DOMAIN fs) + 2) :
                      /\ target = DefaultAB(n)
                      /\ \A m \in 1..(n - 1) : exists(DefaultAB(m), fs)

\* the third resolution of a.b in <root>/default: a.b and a__2.b exist and
\* a__3.b is returned
C10_Witness ==
    /\ pc = "fetch"
    /\ target = Root \o <<DefaultDir>> \o << <<"a", "_", "_", "3", ".", "b">> >>
    /\ TargetOf(air, base, name) = Root \o <<DefaultDir>> \o << <<"a", ".", "b">> >>

\* C11: the path a fetch opens for writing does not exist when the fetch starts,
\* the fetch leaves every existing entry of the output tree as it is, every
\* entry that was there before the run is still there unchanged, and the paths
\* of the records the run appended are pairwise distinct
C11_NoClobbering ==
    /\ [][pc = "fetch" =>
            /\ ~exists(target, fs)
            /\ \A q \in DOMAIN fs : q \in DOMAIN fs' /\ fs'[q] = fs[q]]_vars
    /\ [](\A q \in DOMAIN fs0 : q \in DOMAIN fs /\ fs[q] = fs0[q])
    /\ [](\A k1 \in 1..Len(meta) : \A k2 \in 1..Len(meta) :
            \A n1 \in 1..Len(Added(k1)) : \A n2 \in 1..Len(Added(k2)) :
                (k1 # k2 \/ n1 # n2) =>
                    Added(k1)[n1].relative_path # Added(k2)[n2].relative_path)

\* a fetch has written stem__2 because the wanted name was taken by a file that
\* an earlier fetch of the same run wrote
C11_Witness ==
    /\ pc = "record"
    /\ target = Candidate(TargetOf(air, base, name), 2)
    /\ TargetOf(air, base, name) \notin DOMAIN fs0
    /\ \E n \in 1..Len(hist) :
          hist[n].result = "fetched" /\ hist[n].path = TargetOf(air, base, name)
    /\ fs[target] = FileEntry(TRUE, size)

\* the url loop is at a url of item i
InUrlLoop == pc \in {"probe", "probe_warn", "resolve", "fetch", "record"}

\* the name a file of the current item is requested under, before the collision
\* search: <ecosystem>_<name> when the item is classified, else the probed name
Requested == base \o <<IF air.present THEN air.eco \o <<"_">> \o name ELSE name>>

\* the asset of the example: a valid copiedMessage and the same link twice
ExampleItem(k) == orig[k].cm = CmValid /\ orig[k].links = <<Url1, Url1>>

\* <root>/k/c_a.b, the file the example asks for (type k, ecosystem c, name a.b)
ExampleFile == Root \o << <<"k">>, <<"c", "_", "a", ".", "b">> >>

\* C12: while an item with copiedMessage urn:air:c:k:m:1 is processed the
\* classification is (type k, ecosystem c) and the base directory is <root>/k;
\* for an item without copiedMessage it is absent and the base directory is
\* <root>/default; the base directory exists; the path resolved for a url is
\* base/<ecosystem>_<probed name>, or base/<probed name> when unclassified, or
\* that name with __n before the extension.  The example (copiedMessage
\* urn:air:<ecosystem>:<type>:<source>:<id>, links [u, u]): a run that ends
\* normally has attempted exactly one url for the item; when its fetch succeeded
\* there is one new record, its file is <root>/<type>/<ecosystem>_a.b (the __2
\* name when the item is the first and that file existed), and the document
\* was rewritten
C12_RoutingFollowsClassification ==
    /\ InUrlLoop =>
          /\ meta[i].cm = CmValid =>
                /\ air = [present |-> TRUE, type |-> <<"k">>, eco |-> <<"c">>]
                /\ base = Root \o << <<"k">> >>
          /\ meta[i].cm = CmMissing =>
                /\ air = NoAir
                /\ base = Root \o <<DefaultDir>>
          /\ IsDir(base, fs)
    /\ pc \in {"fetch", "record"} =>
          /\ parent_of(target) = base
          /\ \/ target = Requested
             \/ \E n \in 2..(Cardinality(DOMAIN fs) + 2) : target = Candidate(Requested, n)
    /\ (pc = "exit" /\ exitStatus = 0) =>
          \A k \in 1..Len(orig) : ExampleItem(k) =>
              /\ Cardinality({n \in 1..Len(hist) : hist[n].item = k}) = 1
              /\ IsDir(Root \o << <<"k">> >>, fs)
              /\ \A n \in 1..Len(hist) : (hist[n].item = k /\ hist[n].result = "fetched") =>
                    /\ Len(Added(k)) = 1
                    /\ Added(k)[1] = NewRecord(Url1, hist[n].path, Added(k)[1].size_bytes)
                    /\ \/ hist[n].path = ExampleFile
                       \/ \E c \in 2..(Cardinality(DOMAIN fs) + 2) :
                             hist[n].path = Candidate(ExampleFile, c)
                    /\ (k = 1 /\ ExampleFile \notin DOMAIN fs0) => hist[n].path = ExampleFile
                    /\ (k = 1 /\ ExampleFile \in DOMAIN fs0
                              /\ Candidate(ExampleFile, 2) \notin DOMAIN fs0) =>
                          hist[n].path = Candidate(ExampleFile, 2)
                    /\ docWrites = 1 /\ disk = DocFile(meta)

\* the example has run to its end over a tree that already held <root>/k/c_a.b:
\* one fetch, the file c_a__2.b, one new record, the document rewritten
C12_Witness ==
    /\ pc = "exit" /\ exitStatus = 0
    /\ Len(orig) >= 1 /\ ExampleItem(1)
    /\ ExampleFile \in DOMAIN fs0
    /\ Len(hist) = 1 /\ hist[1].result = "fetched"
    /\ hist[1].path = Root \o << <<"k">>, <<"c", "_", "a", "_", "_", "2", ".", "b">> >>
    /\ Len(Added(1)) = 1 /\ docWrites = 1

\* ------------------------------------------------------------------------
\* Runs over one asset, started where main() enters the item loop
\* ------------------------------------------------------------------------
\* an item as a document that was never processed has it
FreshItem(cm, ls) == [cm |-> cm, links |-> ls, downloads |-> [present |-> FALSE, val |-> <<>>]]

\* the state in which main() enters the item loop: the token was found, the
\* root was made, the document doc was loaded, the output tree held files
AfterLoad(doc, files) ==
    /\ env = [token |-> TRUE, root |-> "ok", readable |-> TRUE]
    /\ fs0 = files
    /\ pc = "item"
    /\ exitStatus = -1
    /\ disk = DocFile(doc)
    /\ tmpFile = NoFile
    /\ p = <<>>
    /\ tmp = <<>>
    /\ fs = Mkdir(Root, files)
    /\ orig = doc
    /\ meta = doc
    /\ changed = FALSE
    /\ i = 1
    /\ links = <<>>
    /\ air = NoAir
    /\ base = <<>>
    /\ j = 0
    /\ name = <<>>
    /\ target = <<>>
    /\ size = 0
    /\ hist = <<>>
    /\ resolved = <<>>
    /\ net = [head |-> 0, fetch |-> 0]
    /\ probed = NotProbed
    /\ docWrites = 0

\* a third url, h/d, for the downloadlinks lists
Url3 == <<"h","/","d">>
LinkUrls == {Url1, Url2, Url3}

\* one asset whose downloadlinks is any list of at most MaxLinks of the three urls
InitLinks ==
    \E ls \in SeqsUpTo(LinkUrls, MaxLinks) : AfterLoad(<<FreshItem(CmMissing, ls)>>, <<>>)

\* the item loop over that asset for as long as no fetch has succeeded: every
\* url is probed and fetched until one fetch returns
NextLinks == ItemBegin \/ Probe \/ ProbeWarn \/ Resolve \/ Download

SpecLinks == InitLinks /\ [][NextLinks]_vars

\* the list the item loop iterates over has been computed
Deduped == pc # "item" \/ i > 1

\* index of the first occurrence of u in ls
FirstIndex(ls, u) == CHOOSE k \in 1..Len(ls) : ls[k] = u /\ \A m \in 1..(k - 1) : ls[m] # u

\* the example of the contract: [a, b, a, c, b]
ExampleLinks == <<Url1, Url2, Url1, Url3, Url2>>

\* C13: the list the loop iterates over has no duplicates, has the same
\* elements as downloadlinks, and lists them in the order of their first
\* occurrences, so it is the subsequence of first occurrences ([a,b,a,c,b] gives
\* [a,b,c]); the urls are attempted in that order, one outcome each, so no url
\* is probed or fetched twice for the asset
C13_DedupKeepsFirstOccurrences ==
    Deduped =>
        /\ \A a \in 1..Len(links) : \A b \in 1..Len(links) : a # b => links[a] # links[b]
        /\ {links[k] : k \in 1..Len(links)} = {orig[1].links[k] : k \in 1..Len(orig[1].links)}
        /\ \A a \in 1..Len(links) : \A b \in 1..Len(links) :
              a < b => FirstIndex(orig[1].links, links[a]) < FirstIndex(orig[1].links, links[b])
        /\ orig[1].links = ExampleLinks => links = <<Url1, Url2, Url3>>
        /\ Len(hist) <= Len(links)
        /\ \A n \in 1..Len(hist) : hist[n].url = links[n]
        /\ net.head <= Len(links) /\ net.fetch <= net.head
        /\ net.head = Len(hist) + (IF pc \in {"probe_warn", "resolve", "fetch"} THEN 1 ELSE 0)

\* the example list was reduced to [a, b, c] and all three urls were attempted
C13_Witness ==
    /\ orig[1].links = ExampleLinks
    /\ links = <<Url1, Url2, Url3>>
    /\ net.head = 3 /\ Len(hist) = 3 /\ pc = "record"

\* ------------------------------------------------------------------------
\* Runs over one asset without links, for the copiedMessage values
\* ------------------------------------------------------------------------
\* copiedMessage strings put together from these pieces, well formed or not:
\* lead, scheme, ecosystem, ":", type, ":", source, ":", id, version, format, trail
CmLeads == {<<>>, <<" ">>, <<"x">>}
CmSchemes == {UrnAir, <<"U","R","N",":","A","I","R",":">>, <<"u","r","n",":">>}
CmEcosystems == {<<"c","1">>, <<"C">>, <<>>}
CmTypes == {<<"k">>, <<"K">>}
CmSources == {<<"m">>, <<>>}
CmIds == {<<"1","2">>, <<"x">>, <<>>}
CmVersions == {<<>>, <<"@","2">>, <<"@">>}
CmFormats == {<<>>, <<".","S","1">>, <<".">>}
CmTrails == {<<>>, <<" ">>, <<":","9">>}

CmStrings ==
    {ld \o sc \o ec \o <<":">> \o ty \o <<":">> \o so \o <<":">> \o id \o ve \o fo \o tr :
        ld \in CmLeads, sc \in CmSchemes, ec \in CmEcosystems, ty \in CmTypes,
        so \in CmSources, id \in CmIds, ve \in CmVersions, fo \in CmFormats, tr \in CmTrails}

\* the values of the field: missing, not a string, empty, blank, or one of the strings
CmValues ==
    {CmMissing, [kind |-> "nonstr", s |-> <<>>], [kind |-> "str", s |-> <<>>],
     [kind |-> "str", s |-> <<" ", " ">>]}
    \cup {[kind |-> "str", s |-> str] : str \in CmStrings}

InitAir == \E cm \in CmValues : AfterLoad(<<FreshItem(cm, <<>>)>>, <<>>)

\* the head of the item loop, where parse_air is called
NextAir == ItemBegin

SpecAir == InitAir /\ [][NextAir]_vars

\* s[a..b] is a non-empty run of characters of cls
RunOf(s, a, b, cls) == a <= b /\ \A k \in a..b : s[k] \in cls

\* the identifier grammar urn:air:<ecosystem>:<type>:<source>:<id>[@<version>][.<format>]:
\* s is the scheme tag, three colon-terminated lower-case alphanumeric segments,
\* a run of digits, then optionally @ and digits, then optionally . and
\* alphanumerics, and nothing else
AirGrammar(s) ==
    /\ StartsAt(s, 1, UrnAir)
    /\ \E c1 \in {k \in 1..Len(s) : s[k] = ":"} :
          /\ RunOf(s, Len(UrnAir) + 1, c1 - 1, Lowers \cup DigitChars)
          /\ \E c2 \in {k \in 1..Len(s) : s[k] = ":"} :
                /\ RunOf(s, c1 + 1, c2 - 1, Lowers \cup DigitChars)
                /\ \E c3 \in {k \in 1..Len(s) : s[k] = ":"} :
                      /\ RunOf(s, c2 + 1, c3 - 1, Lowers \cup DigitChars)
                      /\ \E e \in 1..Len(s) :
                            /\ RunOf(s, c3 + 1, e, DigitChars)
                            /\ \E v \in e..Len(s) :
                                  /\ \/ v = e
                                     \/ /\ v > e + 1 /\ s[e + 1] = "@"
                                        /\ RunOf(s, e + 2, v, DigitChars)
                                  /\ \/ v = Len(s)
                                     \/ /\ v + 1 < Len(s) /\ s[v + 1] = "."
                                        /\ RunOf(s, v + 2, Len(s),
                                                 Lowers \cup Uppers \cup DigitChars)

\* parse_air has been called for the asset
Parsed == pc # "item" \/ i > 1

\* the classification that belongs to a well-formed string: the fourth and the
\* third of its colon-separated pieces, lower-cased
Classified(s) ==
    [present |-> TRUE, type |-> lower(split(s, ":")[4]), eco |-> lower(split(s, ":")[3])]

\* C14 as stated: the classification is present exactly when the field is a
\* string that matches the grammar as a whole, with no character before or
\* after the identifier
C14_MatchesWholeString ==
    Parsed => (air.present <=> (orig[1].cm.kind = "str" /\ AirGrammar(orig[1].cm.s)))

\* C14 amended: the classification is present exactly when the field is a
\* string that matches the grammar after its leading and trailing blanks are
\* removed; it is then (type, ecosystem), lower-cased; a missing, non-string,
\* empty or blank field, a string with extra segments and a non-numeric id give
\* absent
C14_MatchesStrippedString ==
    Parsed =>
          /\ air.present <=> (orig[1].cm.kind = "str" /\ AirGrammar(strip(orig[1].cm.s)))
          /\ air.present => air = Classified(strip(orig[1].cm.s))
          /\ ~air.present => air = NoAir
          /\ orig[1].cm.kind # "str" => ~air.present
          /\ strip(orig[1].cm.s) = <<>> => ~air.present
          /\ Len(split(orig[1].cm.s, ":")) # 6 => ~air.present

\* a well-formed identifier between blanks was classified
C14_Witness ==
    /\ Parsed
    /\ orig[1].cm.s = <<" ">> \o UrnAir \o
          <<"c","1",":","k",":","m",":","1","2","@","2",".","S","1"," ">>
    /\ air = [present |-> TRUE, type |-> <<"k">>, eco |-> <<"c","1">>]
    /\ base = Root \o << <<"k">> >>

\* position of the outcome n in the input: its item, and the index of its url
\* in the deduplicated links of that item
PlaceOf(n) == <<hist[n].item, FirstIndex(dedup(orig[hist[n].item].links), hist[n].url)>>

Before(a, b) == a[1] < b[1] \/ (a[1] = b[1] /\ a[2] < b[2])

\* C15: the statements of one url run in the order probe, resolve, fetch,
\* record; the loop leaves a url only from its record statement, its failed
\* probe or its failed fetch, and then goes to the next url of the list or, after
\* the last, to the next item; items are entered in document order; the
\* outcomes of the run are in input order with at most one outcome per item and
\* url, so nothing is retried, and each HEAD and each content GET belongs to
\* exactly one attempted url
C15_SequentialNoRetry ==
    /\ [][/\ pc = "probe" => (pc' \in {"resolve", "probe_warn", "exit"} /\ i' = i /\ j' = j)
          /\ pc = "resolve" => (pc' \in {"fetch", "exit"} /\ i' = i /\ j' = j)
          /\ (pc = "fetch" /\ hist' = hist) => (pc' = "exit" /\ i' = i /\ j' = j)
          /\ (pc = "fetch" /\ hist' # hist /\ hist'[Len(hist')].result = "fetched") =>
                (pc' = "record" /\ i' = i /\ j' = j)
          /\ (InUrlLoop /\ (i' # i \/ j' # j)) =>
                /\ \/ pc = "record"
                   \/ pc = "probe_warn" /\ hist'[Len(hist')].result = "probe_failed"
                   \/ pc = "fetch" /\ hist'[Len(hist')].result = "fetch_failed"
                /\ hist'[Len(hist')].item = i /\ hist'[Len(hist')].url = links[j]
                /\ IF j < Len(links) THEN pc' = "probe" /\ i' = i /\ j' = j + 1
                   ELSE pc' = "item" /\ i' = i + 1
          /\ (pc = "item" /\ pc' # "exit") => (i' = i \/ i' = i + 1)
          /\ (pc = "item" /\ pc' = "probe") => (i' = i /\ j' = 1)
          /\ i' >= i]_vars
    /\ [](InUrlLoop => (i <= Len(meta) /\ j >= 1 /\ j <= Len(links)
                        /\ links = dedup(orig[i].links)))
    /\ [](\A n \in 1..Len(hist) : \A m \in 1..Len(hist) :
            n < m => Before(PlaceOf(n), PlaceOf(m)))
    /\ [](\A n \in 1..Len(hist) :
            Before(PlaceOf(n), <<i, j>>) \/ (pc = "record" /\ PlaceOf(n) = <<i, j>>)
            \/ ~InUrlLoop)
    /\ [](net.fetch = Cardinality({n \in 1..Len(hist) : hist[n].result # "probe_failed"}))
    /\ [](net.head = Len(hist) + (IF pc \in {"probe_warn", "resolve", "fetch"} THEN 1 ELSE 0)
            \/ pc = "exit")

\* a finished run over two urls: the first failed, the second, attempted after
\* it, was fetched, each with one HEAD and the second with one content GET
C15_Witness ==
    /\ pc = "exit" /\ exitStatus = 0
    /\ Len(hist) = 2
    /\ hist[1].result = "fetch_failed" /\ hist[2].result = "fetched"
    /\ hist[1].item = 1 /\ hist[2].item = 1
    /\ net = [head |-> 2, fetch |-> 2]

\* probe_filename has just returned a name, or has just raised
ProbeReturned == pc = "resolve" /\ probed.called
ProbeRaised == pc = "probe_warn" /\ probed.called

\* the HEAD request returned a non-error status
HeadSucceeded == ~probed.head.raised /\ probed.head.status < 400

\* the names get_filename_from_headers can derive from a response to the url
NamesFor(url) == {get_filename_from_headers(url, cd) : cd \in Dispositions}

\* C16 as stated: after a successful HEAD no GET is issued and the probe returns
\* a name; after a failed HEAD exactly one GET is issued; the probe fails if and
\* only if the HEAD did not succeed and the GET raised or returned a status
\* outside 200..299
C16_FailsOnNon2xx ==
    (ProbeReturned \/ ProbeRaised) =>
        /\ HeadSucceeded => (probed.gets = 0 /\ ProbeReturned)
        /\ ~HeadSucceeded => probed.gets = 1
        /\ ProbeRaised <=>
              /\ ~HeadSucceeded
              /\ probed.get.raised \/ probed.get.status < 200 \/ probed.get.status > 299

\* C16 amended: after a HEAD with a status below 400 no GET is issued and the
\* probe returns a name derived from the response; after a HEAD that raised or
\* returned a status of 400 or more exactly one GET is issued; the probe fails
\* if and only if the HEAD did not succeed and the GET raised or returned a
\* status of 400 or more, so a GET answered with a 3xx status yields a name
C16_FailsOnErrorStatus ==
    /\ (ProbeReturned \/ ProbeRaised) =>
          /\ HeadSucceeded => (probed.gets = 0 /\ probed.get = Unsent /\ ProbeReturned)
          /\ ~HeadSucceeded => probed.gets = 1
          /\ ProbeRaised <=>
                /\ ~HeadSucceeded
                /\ probed.get.raised \/ probed.get.status >= 400
          /\ ProbeReturned => name \in NamesFor(links[j])
    /\ probed.called => pc \in {"resolve", "probe_warn", "exit"}

\* the HEAD raised, the GET was answered 304 and the probe returned a name
C16_Witness ==
    /\ ProbeReturned
    /\ probed.head.raised /\ probed.gets = 1
    /\ ~probed.get.raised /\ probed.get.status = 304
    /\ name = <<"c">>

\* ------------------------------------------------------------------------
\* Runs over one asset with one url, started where probe_filename has returned
\* ------------------------------------------------------------------------
\* values of the filename parameter of a Content-Disposition header: a plain
\* name, an empty one, an absolute path, names with separators and with ..
CdFilenames ==
    {<<"\"","a",".","b","\"">>, <<"\"","\"">>, <<"/","x">>, <<"s","/","x">>,
     <<".",".","/","x">>, <<".",".","/",".",".","/","x">>, <<".",".">>, <<".">>}

\* the names probe_filename returns for h/c when the server sends such a header
ProbedNames == {get_filename_from_headers(Url2, FilenameKey \o v) : v \in CdFilenames}

\* the output tree before the run: empty, or holding the directories
\* <root>/default/s and <root>/k/c_s
SubDirs ==
    Mkdir(Root \o <<DefaultDir, <<"s">> >>, Mkdir(Root \o << <<"k">>, <<"c","_","s">> >>, <<>>))
NameTrees == {<<>>, SubDirs}

\* the state in which probe_filename has returned nm for the only url of the
\* only item of a document: the item loop was entered, the base directory made,
\* one HEAD answered
AfterProbe(cm, nm, files) ==
    /\ env = [token |-> TRUE, root |-> "ok", readable |-> TRUE]
    /\ fs0 = files
    /\ pc = "resolve"
    /\ exitStatus = -1
    /\ disk = DocFile(<<FreshItem(cm, <<Url2>>)>>)
    /\ tmpFile = NoFile
    /\ p = <<>>
    /\ tmp = <<>>
    /\ fs = Mkdir(BaseOf(parse_air(cm)), Mkdir(Root, files))
    /\ orig = <<FreshItem(cm, <<Url2>>)>>
    /\ meta = <<FreshItem(cm, <<Url2>>)>>
    /\ changed = FALSE
    /\ i = 1
    /\ links = <<Url2>>
    /\ air = parse_air(cm)
    /\ base = BaseOf(parse_air(cm))
    /\ j = 1
    /\ name = nm
    /\ target = <<>>
    /\ size = 0
    /\ hist = <<>>
    /\ resolved = <<>>
    /\ net = [head |-> 1, fetch |-> 0]
    /\ probed = [called |-> TRUE, head |-> [raised |-> FALSE, status |-> 200],
                 gets |-> 0, get |-> Unsent]
    /\ docWrites = 0

InitNames ==
    \E cm \in CopiedMessages, nm \in ProbedNames, files \in NameTrees : AfterProbe(cm, nm, files)

\* the rest of the run: resolve, fetch, record, save
NextNames ==
    \/ Resolve \/ Download \/ Record \/ SaveCheck \/ SaveOpen \/ SaveDump \/ SaveReplace

SpecNames == InitNames /\ [][NextNames]_vars

\* the files the run has created, by the place they have on disk
NewFiles == {q \in DOMAIN fs : fs[q].kind = "file" /\ q \notin DOMAIN fs0}

\* C17 as stated: every file the run writes for the asset lies inside the
\* asset's base directory, and so inside the root, whatever name the probe
\* returned
C17_FilesStayInBase ==
    \A q \in NewFiles :
        /\ Len(q) > Len(BaseOf(parse_air(orig[1].cm)))
        /\ IsPrefix(BaseOf(parse_air(orig[1].cm)), q)
        /\ IsPrefix(Root, q)

\* the paths of the records this run has appended, and of the file whose record
\* statement is about to run
RecordedPaths ==
    UNION {{Added(k)[n].relative_path : n \in 1..Len(Added(k))} : k \in 1..Len(meta)}
    \cup (IF pc = "record" THEN {target} ELSE {})

FilesOf(files) == {q \in DOMAIN files : files[q].kind = "file"}

\* C18 as stated: no file exists at the path resolved for a url whose fetch
\* failed, unless a later fetch of the run wrote it, and, in a run that is not
\* terminated from outside, the files of the output tree are exactly the files
\* that were there before the run and the files the appended records name
C18_FailedFetchLeavesNoFile ==
    /\ \A n \in 1..Len(hist) :
          (hist[n].result = "fetch_failed" /\ exists(hist[n].path, fs)) =>
              \E m \in (n + 1)..Len(hist) :
                  hist[m].result = "fetched" /\ hist[m].path = hist[n].path
    /\ (Loaded /\ exitStatus # 137) =>
          FilesOf(fs) = FilesOf(fs0) \cup (RecordedPaths \cap DOMAIN fs)

====
